---------------------------- MODULE Spec2Model ----------------------------
(***************************************************************************)
(* The rope of src/src/text.rs (Text, TextNode, Iter, LineIter) as a state *)
(* machine: two rope handles t and u that the public operations of Text    *)
(* rewrite, and one line iterator.  A String is a sequence of characters;  *)
(* String::len() is its length in UTF-8 bytes, chars() walks characters.   *)
(***************************************************************************)
EXTENDS Integers, Sequences, FiniteSets, TLC

VARIABLES t, u, overflow_checks, fault, it

vars == <<t, u, overflow_checks, fault, it>>

---------------------------------------------------------------------------
(* Characters.  LF is '\n'; "a" is a one-byte character; WIDE is a        *)
(* character whose UTF-8 encoding takes two bytes (such as U+00E9).        *)
LF == "\n"

WIDE == "U+00E9"

Chars == {"a", LF, WIDE}

utf8_len(c) == IF c = WIDE THEN 2 ELSE 1

(* const LEAF_MAX: usize = 1000, scaled to 4 so that strings of StrMax    *)
(* characters reach both sides of every comparison with it: two one-byte   *)
(* characters, or WIDE and one more byte, still merge (< LEAF_MAX), and a  *)
(* string of more than LEAF_MAX bytes is split at its midpoint.            *)
LEAF_MAX == 4

(* usize arithmetic: the modulus of the narrowest pointer width Rust       *)
(* supports (16 bits); wider targets wrap the same way.                    *)
USIZE == 2 ^ 16

USIZE_MAX == USIZE - 1

(* Bounds of the model. *)
PoolMax == 4

StrMax == 3

ArgMax == 3

ItemsMax == 1

EndCalls == 2

---------------------------------------------------------------------------
(* Option<T> *)
None == [tag |-> "None"]

Some(x) == [tag |-> "Some", value |-> x]

(* An operation that does not return: a panic of checked arithmetic, or    *)
(* unbounded recursion ending in a stack overflow.                         *)
Panic == [tag |-> "attempt to subtract with overflow"]

PanicAdd == [tag |-> "attempt to add with overflow"]

StackOverflow == [tag |-> "StackOverflow"]

is_text(x) == x.tag \in {"Leaf", "Branch"}

wrapping_add(a, b) == (a + b) % USIZE

wrapping_sub(a, b) == (a - b + USIZE) % USIZE

Min(a, b) == IF a < b THEN a ELSE b

Max(a, b) == IF a < b THEN b ELSE a

(* Iterator adaptors of std on chars(). *)
take(s, n) == SubSeq(s, 1, Min(n, Len(s)))

skip(s, n) == SubSeq(s, Min(n, Len(s)) + 1, Len(s))

(* s.chars().position(|c| c == '\n') *)
position(s) ==
  LET I == {i \in 1..Len(s) : s[i] = LF}
  IN  IF I = {} THEN None
      ELSE Some((CHOOSE i \in I : \A j \in I : i <= j) - 1)

(* String::len(): the length in bytes. *)
RECURSIVE byte_len(_)
byte_len(s) == IF s = <<>> THEN 0 ELSE utf8_len(Head(s)) + byte_len(Tail(s))

(* s.chars().filter(|c| c == &'\n').count() *)
count_lf(s) == Cardinality({i \in 1..Len(s) : s[i] = LF})

ends_with_lf(s) == Len(s) > 0 /\ s[Len(s)] = LF

---------------------------------------------------------------------------
(* enum Text { Branch(Arc<TextNode>), Leaf(Arc<String>) } *)
Leaf(s) == [tag |-> "Leaf", string |-> s]

Branch(node) ==
  [tag |-> "Branch", left |-> node.left, right |-> node.right,
   length |-> node.length, depth |-> node.depth, lines |-> node.lines]

new == Leaf(<<>>)

len(self) == IF self.tag = "Branch" THEN self.length ELSE byte_len(self.string)

lines(self) == IF self.tag = "Branch" THEN self.lines ELSE count_lf(self.string)

depth(self) == IF self.tag = "Branch" THEN self.depth ELSE 0

is_leaf(self) == self.tag = "Leaf"

RECURSIVE to_string(_)
to_string(self) ==
  IF self.tag = "Leaf" THEN self.string
  ELSE to_string(self.left) \o to_string(self.right)

RECURSIVE char_at(_, _)
char_at(self, index) ==
  IF index >= len(self) THEN None
  ELSE IF self.tag = "Leaf"
       THEN IF index < Len(self.string) THEN Some(self.string[index + 1]) ELSE None
       ELSE LET l == len(self.left)
            IN  IF index < l THEN char_at(self.left, index)
                ELSE char_at(self.right, index - l)

RECURSIVE from_str(_), concat(_, _)

(* from_str: the split point, or None for "return Leaf(r)". *)
target(r) ==
  LET pos == position(r)
  IN  IF pos # None /\ pos.value < byte_len(r) - 1 THEN Some(pos.value + 1)
      ELSE IF byte_len(r) > LEAF_MAX THEN Some(byte_len(r) \div 2)
      ELSE None

(* Leaf(left).concat(&Leaf(right)) starts with reorder_leaf on Leaf(left), *)
(* that is from_str(left).  When the split leaves right empty, left is r   *)
(* itself and from_str(r) calls from_str(r): the recursion never ends and  *)
(* the thread overflows its stack.                                         *)
from_str(r) ==
  LET tg == target(r)
  IN  IF tg = None THEN Leaf(r)
      ELSE LET left == take(r, tg.value)
               right == skip(r, tg.value)
           IN  IF left = r THEN StackOverflow
               ELSE concat(Leaf(left), Leaf(right))

reorder_leaf(self) == IF self.tag = "Leaf" THEN from_str(self.string) ELSE self

(* merge_leaves without its test of the last character of left. *)
merge_leaves_across_lf(left, right) ==
  /\ is_leaf(left) /\ is_leaf(right)
  /\ len(left) + len(right) < LEAF_MAX

(* The guard of the (Leaf, Leaf) arm. *)
merge_leaves(left, right) ==
  /\ is_leaf(left) /\ is_leaf(right)
  /\ len(left) + len(right) < LEAF_MAX
  /\ char_at(left, len(left) - 1) # Some(LF)

(* The guard of the (Branch, Leaf) arm. *)
merge_rightmost(left, right) ==
  /\ left.tag = "Branch" /\ is_leaf(right)
  /\ is_leaf(left.right)
  /\ char_at(left.right, wrapping_sub(len(left.right), 1)) # Some(LF)
  /\ len(left.right) + len(right) < LEAF_MAX

(* node.right.len() - 1 in that guard goes below zero on an empty Leaf. *)
rightmost_underflows(left, right) ==
  /\ left.tag = "Branch" /\ is_leaf(right)
  /\ is_leaf(left.right)
  /\ len(left.right) < 1

concat(self, other) ==
  LET left == reorder_leaf(self)
  IN  IF ~is_text(left) THEN left
      ELSE LET right == reorder_leaf(other)
           IN  IF ~is_text(right) THEN right
               ELSE LET ll == len(left)
                        rl == len(right)
                    IN  IF ll = 0 THEN right
                        ELSE IF rl = 0 THEN left
                        ELSE IF merge_leaves(left, right)
                             THEN Leaf(left.string \o right.string)
                        ELSE IF overflow_checks /\ rightmost_underflows(left, right)
                             THEN Panic
                        ELSE IF merge_rightmost(left, right)
                             THEN concat(left.left,
                                         Leaf(left.right.string \o right.string))
                        ELSE Branch([left |-> left, right |-> right,
                                     length |-> ll + rl,
                                     depth |-> Max(depth(left), depth(right)) + 1,
                                     lines |-> lines(left) + lines(right)])

(* substr: `start + len` is evaluated only when start <= rll. *)
RECURSIVE substr(_, _, _)
substr(self, start, len_) ==
  IF self.tag = "Leaf" THEN Leaf(take(skip(self.string, start), len_))
  ELSE LET rll == len(self.left)
           left == IF start = 0 /\ len_ >= rll THEN self.left
                   ELSE substr(self.left, start, len_)
       IN  IF ~is_text(left) THEN left
           ELSE IF overflow_checks /\ start <= rll /\ start + len_ >= USIZE
                THEN PanicAdd
           ELSE LET ll == len(left)
                    right ==
                      IF start <= rll
                         /\ wrapping_add(start, len_) >= rll + len(self.right)
                      THEN self.right
                      ELSE LET split_start == IF start > rll THEN start - rll ELSE 0
                               split_len == IF len_ > ll THEN len_ - ll ELSE 0
                           IN  substr(self.right, split_start, split_len)
                IN  IF ~is_text(right) THEN right ELSE concat(left, right)

(* take_left and take_right return a pair; an operation that does not      *)
(* return yields no pair.                                                  *)
pair(a, b) == IF ~is_text(a) THEN <<a>> ELSE IF ~is_text(b) THEN <<b>> ELSE <<a, b>>

take_left(self, count) ==
  IF count > len(self) THEN <<self, new>>
  ELSE pair(substr(self, 0, count), substr(self, count, len(self) - count))

take_right(self, count) ==
  IF count > len(self) THEN <<new, self>>
  ELSE LET split == len(self) - count
       IN  pair(substr(self, 0, split), substr(self, split, count))

(* insert: self.substr(0, index).concat(other) is built before the         *)
(* argument of the outer concat, which holds self.len() - index.           *)
insert(self, index, other) ==
  LET head == substr(self, 0, index)
  IN  IF ~is_text(head) THEN head
      ELSE LET joined == concat(head, other)
           IN  IF ~is_text(joined) THEN joined
               ELSE IF overflow_checks /\ len(self) < index THEN Panic
               ELSE LET tail == substr(self, index, wrapping_sub(len(self), index))
                    IN  IF ~is_text(tail) THEN tail ELSE concat(joined, tail)

delete(self, index, count) ==
  IF overflow_checks /\ index + count >= USIZE THEN PanicAdd
  ELSE LET right == wrapping_add(index, count)
           head == substr(self, 0, index)
       IN  IF ~is_text(head) THEN head
           ELSE IF overflow_checks /\ len(self) < right THEN Panic
           ELSE LET tail == substr(self, right, wrapping_sub(len(self), right))
                IN  IF ~is_text(tail) THEN tail ELSE concat(head, tail)

(* find_line with `line > self.lines()` for `line >= self.lines()`. *)
RECURSIVE find_line_gt(_, _, _)
find_line_gt(self, line_, offset) ==
  IF line_ = 0 THEN Some(offset)
  ELSE IF line_ > lines(self) THEN None
  ELSE IF self.tag = "Leaf" THEN Some(offset)
  ELSE LET ll == lines(self.left)
       IN  IF line_ < ll THEN find_line_gt(self.left, line_, offset)
           ELSE find_line_gt(self.right, line_ - ll, offset + len(self.left))

RECURSIVE find_line(_, _, _)
find_line(self, line_, offset) ==
  IF line_ = 0 THEN Some(offset)
  ELSE IF line_ >= lines(self) THEN None
  ELSE IF self.tag = "Leaf" THEN Some(offset)
  ELSE LET ll == lines(self.left)
       IN  IF line_ < ll THEN find_line(self.left, line_, offset)
           ELSE find_line(self.right, line_ - ll, offset + len(self.left))

line_pos(self, line_) == find_line(self, line_, 0)

(* from_line and line return Option<Text>, or do not return. *)
from_line(self, line_) ==
  LET pos == line_pos(self, line_)
  IN  IF pos = None THEN None
      ELSE IF overflow_checks /\ len(self) < pos.value THEN Panic
      ELSE LET r == substr(self, pos.value, wrapping_sub(len(self), pos.value))
           IN  IF is_text(r) THEN Some(r) ELSE r

line(self, line_) ==
  LET start == line_pos(self, line_)
  IN  IF overflow_checks /\ line_ + 1 >= USIZE THEN PanicAdd
      ELSE LET end == line_pos(self, wrapping_add(line_, 1))
               a == IF start = None THEN 0 ELSE start.value
               b == IF end = None THEN len(self) ELSE end.value
           IN  IF start = None THEN None
               ELSE IF overflow_checks /\ b < a THEN Panic
               ELSE LET r == substr(self, a, wrapping_sub(b, a))
                    IN  IF is_text(r) THEN Some(r) ELSE r

(* impl PartialEq for Text.  ptr_eq is Arc::ptr_eq on the two handles; the *)
(* derived PartialEq of TextNode compares left, right, length, depth and   *)
(* lines, and its children's handles are taken as distinct allocations.    *)
RECURSIVE eq(_, _, _)
eq(self, other, ptr_eq) ==
  IF self.tag = "Leaf" /\ other.tag = "Leaf" /\ ptr_eq THEN TRUE
  ELSE IF self.tag = "Branch" /\ other.tag = "Branch" /\ ptr_eq THEN TRUE
  ELSE IF self.tag = "Leaf" /\ other.tag = "Leaf" THEN self.string = other.string
  ELSE IF self.tag = "Branch" /\ other.tag = "Branch"
       THEN /\ eq(self.left, other.left, FALSE)
            /\ eq(self.right, other.right, FALSE)
            /\ self.length = other.length
            /\ self.depth = other.depth
            /\ self.lines = other.lines
  ELSE FALSE

(* impl FromIterator<String> and FromIterator<char>: a fold of concat over *)
(* one Leaf per item, from Text::new().                                    *)
RECURSIVE fold_concat(_, _)
fold_concat(rope, items) ==
  IF items = <<>> \/ ~is_text(rope) THEN rope
  ELSE fold_concat(concat(rope, Leaf(Head(items))), Tail(items))

from_iter(items) == fold_concat(new, items)

from_iter_char(s) == fold_concat(new, [i \in 1..Len(s) |-> <<s[i]>>])

---------------------------------------------------------------------------
(* Iter: a Vec<Text> used as a stack, its top the last element.            *)
(* Iter::next loops on step() until a Leaf is popped or the stack is empty *)
RECURSIVE iter_next(_)
iter_next(stack) ==
  IF stack = <<>> THEN [item |-> None, stack |-> stack]
  ELSE LET rope == stack[Len(stack)]
           rest == SubSeq(stack, 1, Len(stack) - 1)
       IN  IF rope.tag = "Leaf" THEN [item |-> Some(rope.string), stack |-> rest]
           ELSE iter_next(rest \o <<rope.right, rope.left>>)

(* line_iter_next without the arm that flushes the buffer at the end. *)
RECURSIVE line_iter_next_no_flush(_, _)
line_iter_next_no_flush(stack, buf) ==
  LET r == iter_next(stack)
  IN  IF r.item # None /\ ends_with_lf(r.item.value)
      THEN [item |-> Some(buf \o r.item.value), stack |-> r.stack, buf |-> <<>>]
      ELSE IF r.item # None
      THEN line_iter_next_no_flush(r.stack, buf \o r.item.value)
      ELSE [item |-> None, stack |-> r.stack, buf |-> buf]

(* LineIter::next on the iterator state [stack, buf]: the item returned    *)
(* and the state left behind.                                              *)
RECURSIVE line_iter_next(_, _)
line_iter_next(stack, buf) ==
  LET r == iter_next(stack)
  IN  IF r.item = None /\ byte_len(buf) > 0
      THEN [item |-> Some(buf), stack |-> r.stack, buf |-> <<>>]
      ELSE IF r.item # None /\ ends_with_lf(r.item.value)
      THEN [item |-> Some(buf \o r.item.value), stack |-> r.stack, buf |-> <<>>]
      ELSE IF r.item # None
      THEN line_iter_next(r.stack, buf \o r.item.value)
      ELSE [item |-> None, stack |-> r.stack, buf |-> buf]

---------------------------------------------------------------------------
(* The inputs of the operations. *)
RECURSIVE StringsOf(_)
StringsOf(n) ==
  IF n = 0 THEN {<<>>}
  ELSE LET S == StringsOf(n - 1)
       IN  S \cup {Append(s, c) : s \in {x \in S : Len(x) = n - 1}, c \in Chars}

Strings == StringsOf(StrMax)

Items == StringsOf(ItemsMax)

Args == 0..ArgMax \cup {USIZE_MAX}

char_count(x) == Len(to_string(x))

(* The ropes held in t and u together stay within PoolMax characters. *)
Fits(a, b) == is_text(a) /\ is_text(b) => char_count(a) + char_count(b) <= PoolMax

(* The program runs until an operation aborts it; while a line iterator is *)
(* being driven the handles are left alone (the iterator holds its own     *)
(* clone of the rope, so edits would not reach it).                        *)
Running == fault = None /\ it = None

(* What is kept of an operation that aborts the program: the operation,    *)
(* how it ended, and whether its arguments reached past the end of t.      *)
Abort(op, past_end, r) == [op |-> op, abort |-> r.tag, past_end |-> past_end]

(* The outcome of an operation that yields a rope for t: the rope, or the  *)
(* abort that ends the program.                                            *)
Yield(op, past_end, r) ==
  /\ Fits(r, u)
  /\ IF is_text(r) THEN t' = r /\ fault' = fault
                   ELSE t' = t /\ fault' = Abort(op, past_end, r)

(* take_left and take_right yield the pair (t, u). *)
YieldPair(op, past_end, r) ==
  IF is_text(r[1]) THEN t' = r[1] /\ u' = r[2] /\ fault' = fault
  ELSE t' = t /\ u' = u /\ fault' = Abort(op, past_end, r[1])

(* from_line and line yield Option<Text>; None leaves t as it is. *)
YieldOption(op, r) ==
  IF r = None THEN t' = t /\ fault' = fault
  ELSE IF r.tag = "Some" THEN Fits(r.value, u) /\ t' = r.value /\ fault' = fault
  ELSE t' = t /\ fault' = Abort(op, FALSE, r)

Init ==
  /\ t = new
  /\ u = new
  /\ overflow_checks \in BOOLEAN
  /\ fault = None
  /\ it = None

New ==
  /\ Running
  /\ Yield("new", FALSE, new)
  /\ UNCHANGED <<u, overflow_checks, it>>

(* from_str, from_iter: t is overwritten, so building from any state is    *)
(* New followed by the constructor; the constructors fire on an empty t.   *)
FromStr(s) ==
  /\ Running /\ t = new
  /\ Yield("from_str", FALSE, from_str(s))
  /\ UNCHANGED <<u, overflow_checks, it>>

FromIter(items) ==
  /\ Running /\ t = new
  /\ Yield("from_iter", FALSE, from_iter(items))
  /\ UNCHANGED <<u, overflow_checks, it>>

FromIterChar(s) ==
  /\ Running /\ t = new
  /\ Yield("from_iter", FALSE, from_iter_char(s))
  /\ UNCHANGED <<u, overflow_checks, it>>

(* let u = t.clone() *)
Clone ==
  /\ Running
  /\ Fits(t, t)
  /\ u' = t
  /\ UNCHANGED <<t, overflow_checks, fault, it>>

(* std::mem::swap(&mut t, &mut u) *)
Swap ==
  /\ Running
  /\ t' = u /\ u' = t
  /\ UNCHANGED <<overflow_checks, fault, it>>

Concat ==
  /\ Running
  /\ Yield("concat", FALSE, concat(t, u))
  /\ UNCHANGED <<u, overflow_checks, it>>

Substr(start, len_) ==
  /\ Running
  /\ Yield("substr", start + len_ > len(t), substr(t, start, len_))
  /\ UNCHANGED <<u, overflow_checks, it>>

TakeLeft(count) ==
  /\ Running
  /\ YieldPair("take_left", count > len(t), take_left(t, count))
  /\ UNCHANGED <<overflow_checks, it>>

TakeRight(count) ==
  /\ Running
  /\ YieldPair("take_right", count > len(t), take_right(t, count))
  /\ UNCHANGED <<overflow_checks, it>>

Insert(index) ==
  /\ Running
  /\ Yield("insert", index > len(t), insert(t, index, u))
  /\ UNCHANGED <<u, overflow_checks, it>>

Delete(index, count) ==
  /\ Running
  /\ Yield("delete", index + count > len(t), delete(t, index, count))
  /\ UNCHANGED <<u, overflow_checks, it>>

FromLine(n) ==
  /\ Running
  /\ YieldOption("from_line", from_line(t, n))
  /\ UNCHANGED <<u, overflow_checks, it>>

Line(n) ==
  /\ Running
  /\ YieldOption("line", line(t, n))
  /\ UNCHANGED <<u, overflow_checks, it>>

(* iter_lines: LineIter::new(&t).  `returned` is the history of what next  *)
(* has returned.  The iterator is taken while u is empty: u plays no part  *)
(* in it, and New and Swap empty u in any state.                           *)
IterLines ==
  /\ Running /\ u = new
  /\ it' = [stack |-> <<t>>, buf |-> <<>>, returned |-> <<>>]
  /\ UNCHANGED <<t, u, overflow_checks, fault>>

ended_calls(returned) == Cardinality({i \in 1..Len(returned) : returned[i] = None})

(* One call of LineIter::next; the calls after the end are bounded. *)
LineIterNext ==
  /\ fault = None /\ it # None
  /\ ended_calls(it.returned) < EndCalls
  /\ LET r == line_iter_next(it.stack, it.buf)
     IN  it' = [stack |-> r.stack, buf |-> r.buf,
                returned |-> Append(it.returned, r.item)]
  /\ UNCHANGED <<t, u, overflow_checks, fault>>

(* The iterator is dropped. *)
IterDrop ==
  /\ fault = None /\ it # None
  /\ it' = None
  /\ UNCHANGED <<t, u, overflow_checks, fault>>

Next ==
  \/ New
  \/ \E s \in Strings : FromStr(s)
  \/ \E a, b \in Items : FromIter(<<a, b>>)
  \/ \E s \in Strings : FromIterChar(s)
  \/ Clone
  \/ Swap
  \/ Concat
  \/ \E start, len_ \in Args : Substr(start, len_)
  \/ \E count \in Args : TakeLeft(count)
  \/ \E count \in Args : TakeRight(count)
  \/ \E index \in Args : Insert(index)
  \/ \E index, count \in Args : Delete(index, count)
  \/ \E n \in Args : FromLine(n)
  \/ \E n \in Args : Line(n)
  \/ IterLines
  \/ LineIterNext
  \/ IterDrop

Spec == Init /\ [][Next]_vars

(* The program that only builds and edits, every offset within the rope:   *)
(* new, from_str, concat, substr, take_left, take_right, insert, delete.   *)
NextEdit ==
  \/ New
  \/ \E s \in Strings : FromStr(s)
  \/ Clone
  \/ Swap
  \/ Concat
  \/ \E start, len_ \in 0..ArgMax : start + len_ <= len(t) /\ Substr(start, len_)
  \/ \E count \in 0..ArgMax : count <= len(t) /\ TakeLeft(count)
  \/ \E count \in 0..ArgMax : count <= len(t) /\ TakeRight(count)
  \/ \E index \in 0..ArgMax : index <= len(t) /\ Insert(index)
  \/ \E index, count \in 0..ArgMax : index + count <= len(t) /\ Delete(index, count)

SpecEdit == Init /\ [][NextEdit]_vars
---------------------------------------------------------------------------
(* What the claims speak of: the content of a rope as a sequence of        *)
(* characters, its slices and its logical lines.                           *)
content(x) == to_string(x)

(* The characters a .. b-1 of s, counted from zero. *)
Slice(s, a, b) == SubSeq(s, a + 1, b)

LfAt(s) == {i \in 1..Len(s) : s[i] = LF}

(* The offset where zero-based line n starts: one past the n-th newline. *)
LineStart(s, n) ==
  IF n = 0 THEN 0
  ELSE CHOOSE i \in LfAt(s) : Cardinality({j \in LfAt(s) : j <= i}) = n

(* The offset one past the end of the line that starts at offset a. *)
LineEnd(s, a) ==
  LET After == {i \in LfAt(s) : i > a}
  IN  IF After = {} THEN Len(s) ELSE CHOOSE i \in After : \A j \in After : i <= j

LineOf(s, n) == Slice(s, LineStart(s, n), LineEnd(s, LineStart(s, n)))

(* The logical lines of s: every newline ends one, and what follows the    *)
(* last newline is a line when it is not empty.                            *)
RECURSIVE LogicalLines(_)
LogicalLines(s) ==
  IF s = <<>> THEN <<>>
  ELSE LET e == LineEnd(s, 0)
       IN  <<Slice(s, 0, e)>> \o LogicalLines(Slice(s, e, Len(s)))

Offsets == 0..(2 * PoolMax + 1)

RECURSIVE Disciplined(_)
Disciplined(x) ==
  IF x.tag = "Leaf"
  THEN /\ len(x) <= LEAF_MAX
       /\ \A i \in 1..(Len(x.string) - 1) : x.string[i] # LF
  ELSE /\ Len(content(x.left)) > 0 /\ Len(content(x.right)) > 0
       /\ Disciplined(x.left) /\ Disciplined(x.right)

---------------------------------------------------------------------------
(* C1: concat(a, b) returns a rope whose content is the content of a       *)
(* followed by the content of b, for every two ropes the program holds.    *)
C1_ConcatContent ==
  LET r == concat(t, u)
  IN  is_text(r) /\ content(r) = content(t) \o content(u)

(* C2: substr(t, start, len) returns the slice of the content from         *)
(* min(start, L) to min(start + len, L), L the number of characters of t.  *)
C2_SubstrSlice ==
  \A start, len_ \in 0..ArgMax :
    LET s == content(t)
        r == substr(t, start, len_)
    IN  /\ is_text(r)
        /\ content(r) = Slice(s, Min(start, Len(s)), Min(start + len_, Len(s)))

(* C3: line_pos(0) is 0 and, for 0 < n < lines(t), line_pos(n) is the      *)
(* offset one past the n-th newline of the content.                        *)
C3_LinePosIsLineStart ==
  /\ line_pos(t, 0) = Some(0)
  /\ \A n \in 1..ArgMax :
       n < count_lf(content(t)) => line_pos(t, n) = Some(LineStart(content(t), n))

(* C4: whenever line(n) returns a rope, its content is line n of the       *)
(* content: from the start of line n to the first newline at or after it,  *)
(* inclusive, or to the end of the text.                                   *)
C4_LineContent ==
  \A n \in 0..ArgMax :
    line(t, n).tag = "Some" => content(line(t, n).value) = LineOf(content(t), n)

(* C5: a == b exactly when the contents are equal, whatever the shapes and *)
(* whether or not the two handles are one allocation.                      *)
C5_EqIsContentEq ==
  \A ptr_eq \in (IF t = u THEN BOOLEAN ELSE {FALSE}) :
    eq(t, u, ptr_eq) <=> (content(t) = content(u))

(* C6: char_at(i) is the i-th character of the content when i is less than *)
(* the number of characters, and none otherwise.                           *)
C6_CharAt ==
  \A i \in Offsets :
    char_at(t, i) = IF i < Len(content(t)) THEN Some(content(t)[i + 1]) ELSE None

(* C8: every operation returns; only delete reaching past the end of the   *)
(* rope takes an unsigned subtraction below zero.                          *)
C8_Total ==
  fault # None =>
    /\ fault.op = "delete"
    /\ fault.abort = Panic.tag => fault.past_end

(* C9 as stated: line_pos(n) is none for every n >= lines(t). *)
C9_AbsentFromLines ==
  \A n \in Args : n >= count_lf(content(t)) => line_pos(t, n) = None

(* C9, amended: line_pos(n) is none for every n >= lines(t) other than     *)
(* n = 0, which resolves to offset 0 whatever the content.                 *)
C9_AbsentPastLines ==
  /\ line_pos(t, 0) = Some(0)
  /\ \A n \in Args \ {0} : n >= count_lf(content(t)) => line_pos(t, n) = None

(* A Branch of two lines or more, asked for the line just past its last. *)
C9_Witness ==
  /\ t.tag = "Branch" /\ count_lf(content(t)) \in 2..ArgMax
  /\ line_pos(t, count_lf(content(t))) = None
  /\ line_pos(t, USIZE_MAX) = None

(* C10: every Leaf of a rope the program holds is at most LEAF_MAX long    *)
(* and has no newline before its last character, and every Branch has two  *)
(* non-empty children.                                                     *)
C10_LeafDiscipline == Disciplined(t) /\ Disciplined(u)

RECURSIVE Leaves(_)
Leaves(x) == IF x.tag = "Leaf" THEN {x.string} ELSE Leaves(x.left) \cup Leaves(x.right)

(* A rope two levels deep built without a fault, one Leaf of which is a   *)
(* run of two characters or more that ends a line.                         *)
C10_Witness ==
  /\ fault = None
  /\ depth(t) >= 2
  /\ \E l \in Leaves(t) : Len(l) >= 2 /\ ends_with_lf(l)

(* C7: what next() has returned so far on iter_lines(t) is the logical     *)
(* lines of the content in order, then none on every further call.         *)
C7_LinesInOrder ==
  it # None =>
    LET L == LogicalLines(content(t))
    IN  \A i \in 1..Len(it.returned) :
          it.returned[i] = IF i <= Len(L) THEN Some(L[i]) ELSE None

(* The iterator has returned a full line, then a trailing partial line,   *)
(* then none twice, over a rope that is a Branch.                          *)
C7_Witness ==
  /\ it # None /\ t.tag = "Branch"
  /\ Len(it.returned) = 4
  /\ it.returned[1] # None /\ ends_with_lf(it.returned[1].value)
  /\ it.returned[2] # None /\ ~ends_with_lf(it.returned[2].value)
  /\ it.returned[3] = None /\ it.returned[4] = None
=============================================================================
